---------------------------- MODULE Spec2Model ----------------------------
(***************************************************************************)
(* Model of autocube-tilda-1c (src/src/main.py): the product mapper         *)
(* (get_product_brand, get_product_price, get_product_quantity,             *)
(* map_single_product) and the orchestration of one run (main).             *)
(*                                                                          *)
(* TLA+ strings and identifiers are ASCII, so the Cyrillic literals and     *)
(* dictionary keys of the source are transliterated:                        *)
(*   Artikul, Ceny, TipCeny, Cena, Ostatok, KolichestvoBalance,             *)
(*   NaimenovaniePolnoe are the keys of the expanded 1C record;             *)
(*   the string literals are named below.                                   *)
(*                                                                          *)
(* Numbers that arrive from OData (Cena, KolichestvoBalance) are decimals;  *)
(* they are represented in halves (3 stands for 1.5), and Python's int()   *)
(* is PyInt, truncation toward zero.                                        *)
(*                                                                          *)
(* main.py reads settings.logfile, images_folder, default_image,            *)
(* state_file and max_products_number, which config.py does not declare;    *)
(* the model takes them as given values.                                    *)
(***************************************************************************)
EXTENDS Integers, Sequences, FiniteSets, TLC

\* ----- literals of main.py (transliterated) -----
SPARE_PARTS == "Zapasnye chasti"     \* main.py:46
FOTON == "FOTON"                     \* main.py:47
ASHOK == "ASHOK"                     \* main.py:48
RETAIL_PRICE == "Roznichnaya cena"   \* main.py:28
IN_STOCK == "V nalichii"             \* main.py:54
ON_ORDER == "Na zakaz"               \* main.py:56
CATALOG_ROOT == "Zapchasti/Katalog"  \* main.py:69
BRAND_PREFIX == "Zapchasti/"         \* main.py:69
ART_PREFIX == " [art. "              \* main.py:59
ART_SUFFIX == "]"                    \* main.py:59

\* ----- bounds of the input space -----
MaxChain == 2       \* longest ancestor chain handed to the mapper
MaxPrices == 2      \* longest joined price list (Ceny)
MaxSource == 4      \* most product entities one ERP fetch returns
max_products_number == 3   \* settings.max_products_number (main.py:124,129)

\* ----- value domains -----
OTHER_FOLDER == "Electronics"
WHOLESALE_PRICE == "Optovaya cena"
FolderNames == {SPARE_PARTS, FOTON, ASHOK, OTHER_FOLDER}
NestingLevels == {1, 2}
Folders == [name : FolderNames, nesting_level : NestingLevels]

SeqsUpTo(S, n) == UNION {[1..k -> S] : k \in 0..n}

Chains == SeqsUpTo(Folders, MaxChain)

\* the joined price entries; TipCeny holds the price types that matched the
\* entry's key: none, one, or several. Cena in halves: 3 is 1.5, 1000 is 500.0
PriceOptions == {[TipCeny |-> << >>, Cena |-> 3],
                 [TipCeny |-> <<[Description |-> RETAIL_PRICE]>>, Cena |-> 3],
                 [TipCeny |-> <<[Description |-> RETAIL_PRICE]>>, Cena |-> 1000],
                 [TipCeny |-> <<[Description |-> WHOLESALE_PRICE]>>, Cena |-> 1000],
                 [TipCeny |-> <<[Description |-> WHOLESALE_PRICE],
                                [Description |-> RETAIL_PRICE]>>, Cena |-> 3]}
PriceLists == SeqsUpTo(PriceOptions, MaxPrices)

\* KolichestvoBalance in halves: -2 is -1.0, 1 is 0.5, 4 is 2.0
Balances == {-2, 0, 1, 4}
StockLists == {<< >>} \cup {<<[KolichestvoBalance |-> b]>> : b \in Balances}
              \cup {<<[KolichestvoBalance |-> 0], [KolichestvoBalance |-> 4]>>}

Skus == {"", "P100"}
FullName == <<"F", ",", "x">>

Records == [Ref_Key : {"k1"}, Artikul : Skus, NaimenovaniePolnoe : {FullName},
            Ceny : PriceLists, Ostatok : StockLists]

\* ----- Python values -----
None == << >>
Some(v) == <<v>>
Returned(v) == [kind |-> "return", value |-> v]
Raised(e) == [kind |-> "raise", error |-> e]
Nothing == [kind |-> "none"]

\* int(x) for a decimal x given in halves: truncation toward zero
PyInt(h) == IF h >= 0 THEN h \div 2 ELSE -((-h) \div 2)

\* str.replace(",", ", ") over a string given as its characters
ReplaceCommas(chars) == [i \in 1..Len(chars) |->
                            IF chars[i] = "," THEN ", " ELSE chars[i]]

\* (variant: the loop does not stop at the first match)
RECURSIVE get_product_brand_last(_)
get_product_brand_last(folders) ==
    IF folders = << >> THEN ""
    ELSE IF folders[Len(folders)].nesting_level = 1
         THEN folders[Len(folders)].name
    ELSE get_product_brand_last(SubSeq(folders, 1, Len(folders) - 1))

\* ----- main.py:19-23 -----
RECURSIVE get_product_brand(_)
get_product_brand(folders) ==
    IF folders = << >> THEN ""
    ELSE IF Head(folders).nesting_level = 1 THEN Head(folders).name
    ELSE get_product_brand(Tail(folders))

\* ----- main.py:26-29: None when the loop ends, IndexError on TipCeny[0] of an
\* empty list -----
RECURSIVE price_loop(_)
price_loop(ceny) ==
    IF ceny = << >> THEN Returned(None)
    ELSE IF Head(ceny).TipCeny = << >> THEN Raised("IndexError")
    ELSE IF Head(ceny).TipCeny[1].Description = RETAIL_PRICE
         THEN Returned(Some(PyInt(Head(ceny).Cena)))
    ELSE price_loop(Tail(ceny))

get_product_price(product) == price_loop(product.Ceny)

\* ----- main.py:32-35 -----
get_product_quantity(product) ==
    IF product.Ostatok # << >>
    THEN PyInt(product.Ostatok[1].KolichestvoBalance)
    ELSE 0

\* ----- main.py:44-50 -----
folder_names(folders) == {folders[i].name : i \in 1..Len(folders)}

\* (variant: the parentheses of main.py:50 left out)
is_member_any_brand(folders) ==
    LET names == folder_names(folders)
        is_part == SPARE_PARTS \in names
        is_foton == FOTON \in names
        is_ashok == ASHOK \in names
    IN  (is_part /\ is_foton) \/ is_ashok

is_member(folders) ==
    LET names == folder_names(folders)
        is_part == SPARE_PARTS \in names
        is_foton == FOTON \in names
        is_ashok == ASHOK \in names
    IN  is_part /\ (is_foton \/ is_ashok)

\* ----- main.py:53-56 -----
description_of(quantity) == IF quantity = 0 THEN ON_ORDER ELSE IN_STOCK

\* ----- main.py:58-59 -----
title_of(product) ==
    ReplaceCommas(product.NaimenovaniePolnoe)
        \o <<ART_PREFIX, product.Artikul, ART_SUFFIX>>

\* (variant: the path is built from the product's own folder)
categories_of_leaf(folders) ==
    <<CATALOG_ROOT, BRAND_PREFIX \o folders[1].name>>

\* ----- main.py:68-69 -----
categories_of(folders) ==
    <<CATALOG_ROOT, BRAND_PREFIX \o get_product_brand(folders)>>

\* ----- main.py:38-70 -----
map_single_product(product, folders) ==
    LET sku == product.Artikul
    IN  IF sku = "" THEN Nothing
        ELSE IF ~is_member(folders) THEN Nothing
        ELSE LET quantity == get_product_quantity(product)
                 price == get_product_price(product)
             IN  IF price.kind = "raise" THEN price
                 ELSE [kind |-> "product",
                       external_id |-> product.Ref_Key,
                       title |-> title_of(product),
                       sku |-> sku,
                       brand |-> get_product_brand(folders),
                       description |-> description_of(quantity),
                       price |-> price.value,
                       categories |-> categories_of(folders)]

\* ================== the collaborators main.py calls ==================
\* (src.odata_1c, src.images, src.state, src.tilda are outside src/: their
\* behaviour is taken from the specification's sections 4.4, 4.5 and 6)

DEFAULT_IMAGE == <<"default", "jpg">>     \* settings.default_image

\* ancestor chains as the hierarchy resolver hands them over, leaf first
FotonChain == <<[name |-> FOTON, nesting_level |-> 1],
                [name |-> SPARE_PARTS, nesting_level |-> 2]>>
AshokChain == <<[name |-> ASHOK, nesting_level |-> 1],
                [name |-> SPARE_PARTS, nesting_level |-> 2]>>

Entity(key, sku, ceny, ostatok) ==
    [Ref_Key |-> key, Artikul |-> sku, NaimenovaniePolnoe |-> FullName,
     Ceny |-> ceny, Ostatok |-> ostatok]

\* the expanded product entities an ERP fetch may return, each with its chain
EntityA == [entity |-> Entity("A", "A",
                <<[TipCeny |-> <<[Description |-> RETAIL_PRICE]>>, Cena |-> 1000]>>,
                <<[KolichestvoBalance |-> 4]>>),
            chain |-> FotonChain]
EntityB == [entity |-> Entity("B", "B", << >>, << >>), chain |-> AshokChain]
EntityC == [entity |-> Entity("C", "C", << >>, <<[KolichestvoBalance |-> 0]>>),
            chain |-> FotonChain]
\* no SKU: dropped by the mapper
EntityR == [entity |-> Entity("R", "", << >>, << >>), chain |-> FotonChain]
\* a price whose price type matched nothing: the mapper raises on it
EntityX == [entity |-> Entity("X", "X", <<[TipCeny |-> << >>, Cena |-> 3]>>, << >>),
            chain |-> AshokChain]
\* a negative balance
EntityD == [entity |-> Entity("D", "D", << >>, <<[KolichestvoBalance |-> -2]>>),
            chain |-> AshokChain]
\* the catalog the ERP holds, in the order its pages come
Catalog == <<EntityA, EntityR, EntityB, EntityC, EntityX, EntityD>>

\* what one fetch returns: some of the catalog's entities, in catalog order
\* (Ref_Key identifies an entity: none comes twice)
Selection(picked) ==
    LET F[i \in 0..Len(Catalog)] ==
            IF i = 0 THEN << >>
            ELSE IF i \in picked THEN Append(F[i - 1], Catalog[i])
            ELSE F[i - 1]
    IN  F[Len(Catalog)]

Sources ==
    {Selection(picked) :
        picked \in {x \in SUBSET (1..Len(Catalog)) : Cardinality(x) <= MaxSource}}

\* OData1CMapper.map_products (main.py:118-119): the mapping function applied
\* to each entity in order, the rejected ones left out, an exception let through
RECURSIVE map_products(_)
map_products(entities) ==
    IF entities = << >> THEN Returned(<< >>)
    ELSE LET first == map_single_product(Head(entities).entity,
                                         Head(entities).chain)
             rest == map_products(Tail(entities))
         IN  IF first.kind = "raise" THEN first
             ELSE IF rest.kind = "raise" THEN rest
             ELSE IF first.kind = "none" THEN rest
             ELSE Returned(<<first>> \o rest.value)

\* mapped_products[:settings.max_products_number] (main.py:129)
Truncate(seq, n) == SubSeq(seq, 1, IF Len(seq) < n THEN Len(seq) ELSE n)

\* main.py:73-129, the fetch itself having succeeded
get_products_from_1c(entities) ==
    LET mapped_products == map_products(entities)
    IN  IF mapped_products.kind = "raise" THEN mapped_products
        ELSE Returned(Truncate(mapped_products.value, max_products_number))

\* ImagesFolder.get_products_with_images with
\* match = lambda product, image_name: product.sku == image_name (main.py:164)
image_for(p, dir) ==
    IF \E f \in dir : f[1] = p.sku
    THEN CHOOSE f \in dir : f[1] = p.sku
    ELSE DEFAULT_IMAGE

get_products_with_images(ps, dir) ==
    [i \in 1..Len(ps) |-> [product |-> ps[i], image |-> image_for(ps[i], dir)]]

\* State: the snapshot holds the stable key (external_id) of each product
key_of(pi) == pi.product.external_id
keys_of(pis) == {key_of(pis[i]) : i \in 1..Len(pis)}

NotPresented(snapshot, pi) == key_of(pi) \notin snapshot

filter_not_presented(snapshot, pis) ==
    SelectSeq(pis, LAMBDA pi : NotPresented(snapshot, pi))

dump(pis) == keys_of(pis)

\* DropboxImages.get_products_with_image_urls
get_products_with_image_urls(pis) ==
    [i \in 1..Len(pis) |->
        [product |-> pis[i].product, image |-> pis[i].image,
         image_url |-> <<"/Zapchasti", pis[i].image>>]]

\* DropboxImages.delete_uploaded_images: the local files that were uploaded
delete_uploaded_images(pis, dir) ==
    dir \ {pis[i].image : i \in {j \in 1..Len(pis) : pis[j].image # DEFAULT_IMAGE}}

VARIABLES
    \* the mapper's call under check
    product, folders, call, result,
    \* one run of main
    pc,                               \* the statement main has reached
    source,                           \* the entities this run got from the ERP
                                      \* (none when get_products_from_1c failed)
    products,                         \* main.py:158
    products_with_images,             \* main.py:166
    products_with_images_to_update,   \* main.py:169
    products_with_image_urls,         \* main.py:180
    csv_uploaded,                     \* a CSV file went to Tilda in this run
    \* the world around main
    state_file,                       \* the persisted snapshot (settings.state_file)
    images,                           \* the files of settings.images_folder
    \* history of the run
    snapshot_at_start,                \* state_file when the run began
    stages,                           \* the stages this run has executed, in order
    matcher_input,                    \* what was handed to ImagesFolder
    dropbox_input,                    \* what was handed to DropboxImages
    dumped,                           \* this run has written the snapshot
    repeat_run                        \* the run before this one wrote the snapshot,
                                      \* and this run fetched the same source data

mvars == <<product, folders, call, result>>
run == <<pc, source, products, products_with_images,
         products_with_images_to_update, products_with_image_urls, csv_uploaded>>
world == <<state_file, images>>
history == <<snapshot_at_start, stages, matcher_input, dropbox_input, dumped,
             repeat_run>>
vars == <<mvars, run, world, history>>

NoRecord == Entity("k1", "", << >>, << >>)

\* main before its first run: no state file yet (State loads the empty set)
Idle ==
    /\ pc = "start"
    /\ source = << >>
    /\ products = << >>
    /\ products_with_images = << >>
    /\ products_with_images_to_update = << >>
    /\ products_with_image_urls = << >>
    /\ csv_uploaded = FALSE
    /\ state_file = {}
    /\ images = {<<"A", "jpg">>, <<"B", "jpg">>}
    /\ snapshot_at_start = {}
    /\ stages = << >>
    /\ matcher_input = << >>
    /\ dropbox_input = << >>
    /\ dumped = FALSE
    /\ repeat_run = FALSE

\* ----- the mapper and its helpers applied to every expanded record and
\* ancestor chain of the input space -----
InitMapper ==
    /\ product \in Records
    /\ folders \in Chains
    /\ call = "pending"
    /\ result = Nothing
    /\ Idle

MapSingleProduct ==
    /\ call = "pending"
    /\ call' = "map_single_product"
    /\ result' = map_single_product(product, folders)
    /\ UNCHANGED <<product, folders, run, world, history>>

GetProductBrand ==
    /\ call = "pending"
    /\ call' = "get_product_brand"
    /\ result' = Returned(get_product_brand(folders))
    /\ UNCHANGED <<product, folders, run, world, history>>

GetProductPrice ==
    /\ call = "pending"
    /\ call' = "get_product_price"
    /\ result' = get_product_price(product)
    /\ UNCHANGED <<product, folders, run, world, history>>

GetProductQuantity ==
    /\ call = "pending"
    /\ call' = "get_product_quantity"
    /\ result' = Returned(get_product_quantity(product))
    /\ UNCHANGED <<product, folders, run, world, history>>

NextMapper ==
    \/ MapSingleProduct
    \/ GetProductBrand
    \/ GetProductPrice
    \/ GetProductQuantity

SpecMapper == InitMapper /\ [][NextMapper]_vars

\* =========================== one run of main ===========================

Init ==
    /\ product = NoRecord
    /\ folders = << >>
    /\ call = "pending"
    /\ result = Nothing
    /\ Idle

RunOver == pc \in {"start", "completed", "failed"}

\* what a new run starts from (main's locals are fresh in every call)
Begin ==
    /\ products_with_images' = << >>
    /\ products_with_images_to_update' = << >>
    /\ products_with_image_urls' = << >>
    /\ csv_uploaded' = FALSE
    /\ snapshot_at_start' = state_file
    /\ matcher_input' = << >>
    /\ dropbox_input' = << >>
    /\ dumped' = FALSE
    /\ UNCHANGED <<mvars, world>>

\* logger.catch (main.py:156): the exception is logged and main returns; its
\* locals are gone
Fails ==
    /\ pc' = "failed"
    /\ products' = << >>
    /\ products_with_images' = << >>
    /\ products_with_images_to_update' = << >>
    /\ products_with_image_urls' = << >>
    /\ csv_uploaded' = FALSE
    /\ stages' = << >>
    /\ matcher_input' = << >>
    /\ dropbox_input' = << >>
    /\ repeat_run' = FALSE
    /\ UNCHANGED <<mvars, source, world, snapshot_at_start, dumped>>

\* main.py:158: a new run starts and fetches the entities; the ERP's data is
\* whatever it holds at that moment. An exception of the mapper ends the run.
GetProductsFrom1C ==
    /\ RunOver
    /\ \E entities \in Sources :
          LET fetched == get_products_from_1c(entities)
          IN  IF fetched.kind = "raise"
              THEN /\ pc' = "failed"
                   /\ source' = << >>
                   /\ products' = << >>
                   /\ stages' = << >>
                   /\ repeat_run' = FALSE
              ELSE /\ pc' = "products"
                   /\ source' = entities
                   /\ products' = fetched.value
                   /\ stages' = <<"mapper">>
                   /\ repeat_run' = (dumped /\ entities = source)
    /\ Begin

\* main.py:158: the ERP fetch itself fails (OData1CClient.get_entities)
ErpFetchFails ==
    /\ RunOver
    /\ pc' = "failed"
    /\ source' = << >>
    /\ products' = << >>
    /\ stages' = << >>
    /\ repeat_run' = FALSE
    /\ Begin

\* main.py:160-166
GetProductsWithImages ==
    /\ pc = "products"
    /\ pc' = "images"
    /\ matcher_input' = products
    /\ products_with_images' = get_products_with_images(products, images)
    /\ stages' = Append(stages, "matcher")
    /\ UNCHANGED <<mvars, source, products, products_with_images_to_update,
                   products_with_image_urls, csv_uploaded, world,
                   snapshot_at_start, dropbox_input, dumped, repeat_run>>

ImageMatchingFails ==
    /\ pc = "products"
    /\ Fails

\* (variant: the filter's result is not used)
FilterNothing ==
    /\ pc = "images"
    /\ pc' = "filtered"
    /\ products_with_images_to_update' = products_with_images
    /\ stages' = Append(stages, "differ")
    /\ UNCHANGED <<mvars, source, products, products_with_images,
                   products_with_image_urls, csv_uploaded, world,
                   snapshot_at_start, matcher_input, dropbox_input, dumped,
                   repeat_run>>

\* main.py:168-170
FilterNotPresented ==
    /\ pc = "images"
    /\ pc' = "filtered"
    /\ products_with_images_to_update' =
          filter_not_presented(state_file, products_with_images)
    /\ stages' = Append(stages, "differ")
    /\ UNCHANGED <<mvars, source, products, products_with_images,
                   products_with_image_urls, csv_uploaded, world,
                   snapshot_at_start, matcher_input, dropbox_input, dumped,
                   repeat_run>>

StateLoadFails ==
    /\ pc = "images"
    /\ Fails

\* (variant: every product's image is uploaded)
UploadAllImages ==
    /\ pc = "filtered"
    /\ pc' = "urls"
    /\ dropbox_input' = products_with_images
    /\ products_with_image_urls' =
          get_products_with_image_urls(products_with_images)
    /\ stages' = Append(stages, "dropbox")
    /\ UNCHANGED <<mvars, source, products, products_with_images,
                   products_with_images_to_update, csv_uploaded, world,
                   snapshot_at_start, matcher_input, dumped, repeat_run>>

\* main.py:172-180
GetProductsWithImageUrls ==
    /\ pc = "filtered"
    /\ pc' = "urls"
    /\ dropbox_input' = products_with_images_to_update
    /\ products_with_image_urls' =
          get_products_with_image_urls(products_with_images_to_update)
    /\ stages' = Append(stages, "dropbox")
    /\ UNCHANGED <<mvars, source, products, products_with_images,
                   products_with_images_to_update, csv_uploaded, world,
                   snapshot_at_start, matcher_input, dumped, repeat_run>>

DropboxUploadFails ==
    /\ pc = "filtered"
    /\ Fails

\* main.py:182 and 132-153: nothing is uploaded for an empty list
upload_products_to_tilda ==
    /\ pc = "urls"
    /\ pc' = "uploaded"
    /\ csv_uploaded' = (Len(products_with_image_urls) # 0)
    /\ stages' = Append(stages, "tilda")
    /\ UNCHANGED <<mvars, source, products, products_with_images,
                   products_with_images_to_update, products_with_image_urls,
                   world, snapshot_at_start, matcher_input, dropbox_input,
                   dumped, repeat_run>>

\* main.py:143,153: writing or uploading the CSV file fails
TildaUploadFails ==
    /\ pc = "urls"
    /\ Len(products_with_image_urls) # 0
    /\ Fails

\* (variant: only the delta is written)
StateDumpDelta ==
    /\ pc = "uploaded"
    /\ pc' = "dumped"
    /\ state_file' = dump(products_with_images_to_update)
    /\ dumped' = TRUE
    /\ stages' = Append(stages, "dump")
    /\ UNCHANGED <<mvars, source, products, products_with_images,
                   products_with_images_to_update, products_with_image_urls,
                   csv_uploaded, images, snapshot_at_start, matcher_input,
                   dropbox_input, repeat_run>>

\* main.py:184
StateDump ==
    /\ pc = "uploaded"
    /\ pc' = "dumped"
    /\ state_file' = dump(products_with_images)
    /\ dumped' = TRUE
    /\ stages' = Append(stages, "dump")
    /\ UNCHANGED <<mvars, source, products, products_with_images,
                   products_with_images_to_update, products_with_image_urls,
                   csv_uploaded, images, snapshot_at_start, matcher_input,
                   dropbox_input, repeat_run>>

\* the state store's save fails: the file keeps its old content
StateDumpFails ==
    /\ pc = "uploaded"
    /\ Fails

\* main.py:185
DeleteUploadedImages ==
    /\ pc = "dumped"
    /\ pc' = "completed"
    /\ images' = delete_uploaded_images(products_with_images_to_update, images)
    /\ stages' = Append(stages, "cleanup")
    /\ UNCHANGED <<mvars, source, products, products_with_images,
                   products_with_images_to_update, products_with_image_urls,
                   csv_uploaded, state_file, snapshot_at_start, matcher_input,
                   dropbox_input, dumped, repeat_run>>

DeleteUploadedImagesFails ==
    /\ pc = "dumped"
    /\ Fails

Next ==
    \/ GetProductsFrom1C
    \/ ErpFetchFails
    \/ GetProductsWithImages
    \/ ImageMatchingFails
    \/ FilterNotPresented
    \/ StateLoadFails
    \/ GetProductsWithImageUrls
    \/ DropboxUploadFails
    \/ upload_products_to_tilda
    \/ TildaUploadFails
    \/ StateDump
    \/ StateDumpFails
    \/ DeleteUploadedImages
    \/ DeleteUploadedImagesFails

Spec == Init /\ [][Next]_vars

\* ======================= claims about the mapper =======================

Mapped == call = "map_single_product"

\* the membership rule as the specification words it
HasFolderNamed(chain, n) == \E i \in 1..Len(chain) : chain[i].name = n
MembershipRule(chain) ==
    /\ HasFolderNamed(chain, SPARE_PARTS)
    /\ HasFolderNamed(chain, FOTON) \/ HasFolderNamed(chain, ASHOK)
Accepted == product.Artikul # "" /\ MembershipRule(folders)

\* C1: map_single_product returns nothing exactly when the SKU is empty or
\* the ancestor chain fails the membership rule ("Zapasnye chasti" and one of
\* FOTON, ASHOK); an empty SKU is rejected whatever the other fields are.
C1_RejectExactly ==
    Mapped => ((result = Nothing) <=> ~Accepted)

C1_Witness ==
    /\ Mapped
    /\ product.Artikul = ""
    /\ MembershipRule(folders)
    /\ product.Ceny # << >>
    /\ result = Nothing

\* C2: map_single_product is total: it returns a Product or nothing and never
\* raises, also for an empty stock list, an empty price list or a price entry
\* whose joined price-type list is empty.
C2_NeverRaises ==
    Mapped => result.kind \in {"none", "product"}

\* the first entry, in source order, whose price type is the retail price
FirstRetail(ceny) ==
    LET hits == {i \in 1..Len(ceny) :
                    /\ ceny[i].TipCeny # << >>
                    /\ ceny[i].TipCeny[1].Description = RETAIL_PRICE}
    IN  IF hits = {} THEN None
        ELSE Some(PyInt(ceny[CHOOSE i \in hits : \A j \in hits : i <= j].Cena))

\* C6: for every accepted record the price is the value of the first entry of
\* the price list whose price type is the retail price, no error is raised,
\* and the price is absent (None) when no entry matches.
C6_FirstRetailPrice ==
    (Mapped /\ Accepted) =>
        /\ result.kind = "product"
        /\ result.price = FirstRetail(product.Ceny)

\* C7: for every accepted record the quantity is 0 for an empty stock list and
\* is otherwise taken from it, and the description is the in-stock literal if
\* quantity > 0 and the on-order literal otherwise, negative balances included.
C7_DescriptionBySign ==
    (Mapped /\ result.kind = "product") =>
        /\ product.Ostatok = << >> => get_product_quantity(product) = 0
        /\ result.description =
              IF get_product_quantity(product) > 0 THEN IN_STOCK ELSE ON_ORDER

\* C8: every emitted Product has a non-empty sku and exactly two categories:
\* the catalog root path and "Zapchasti/<brand>" with its own brand.
C8_SkuAndCategories ==
    (Mapped /\ result.kind = "product") =>
        /\ result.sku # ""
        /\ Len(result.categories) = 2
        /\ result.categories[1] = CATALOG_ROOT
        /\ result.categories[2] = BRAND_PREFIX \o result.brand

C8_Witness ==
    /\ Mapped
    /\ result.kind = "product"
    /\ result.brand = FOTON
    /\ folders[1].name = SPARE_PARTS
    /\ result.categories = <<CATALOG_ROOT, "Zapchasti/FOTON">>

\* the chain positions whose nesting_level is 1
LevelOne(chain) == {i \in 1..Len(chain) : chain[i].nesting_level = 1}

\* C9: get_product_brand returns the name of the first chain entry whose
\* nesting_level is 1, and the empty string when there is none (also for the
\* empty chain).
C9_BrandIsFirstLevelOne ==
    call = "get_product_brand" =>
        /\ result.kind = "return"
        /\ result.value =
              IF LevelOne(folders) = {} THEN ""
              ELSE folders[CHOOSE i \in LevelOne(folders) :
                              \A j \in LevelOne(folders) : i <= j].name

C9_Witness ==
    /\ call = "get_product_brand"
    /\ Len(folders) = 2
    /\ folders[1].nesting_level = 1
    /\ folders[2].nesting_level = 1
    /\ folders[1].name # folders[2].name
    /\ result.value = folders[1].name
\* ======================== claims about a run ========================

ProductKeys == [i \in 1..Len(products) |-> products[i].external_id]
KeysToUpdate == [i \in 1..Len(products_with_images_to_update) |->
                    key_of(products_with_images_to_update[i])]
Ran(stage) == \E i \in 1..Len(stages) : stages[i] = stage
Precedes(s, t) == \E i, j \in 1..Len(stages) :
                     i < j /\ stages[i] = s /\ stages[j] = t

\* C3: a run either completes and persists a new snapshot or fails before any
\* state mutation: after a run that failed at any step the persisted snapshot
\* is the one read at the start of that run.
C3_FailedRunKeepsSnapshot ==
    pc = "failed" => state_file = snapshot_at_start

\* C4: after a successful run the persisted snapshot is the full product set
\* get_products_from_1c returned to that run, the products skipped as already
\* done included, not only the needs-processing delta.
C4_SnapshotIsFullProductSet ==
    pc \in {"dumped", "completed"} =>
        state_file = {ProductKeys[i] : i \in 1..Len(products)}

C4_Witness ==
    /\ pc = "completed"
    /\ snapshot_at_start = {"A", "B"}
    /\ ProductKeys = <<"A", "B", "C">>
    /\ KeysToUpdate = <<"C">>
    /\ state_file = {"A", "B", "C"}

\* C5: the second of two runs over identical source data, the first having
\* written its snapshot, finds nothing that needs processing.
C5_SecondRunNothingToProcess ==
    (repeat_run /\ Ran("differ")) => products_with_images_to_update = << >>

C5_Witness ==
    /\ repeat_run
    /\ pc = "completed"
    /\ Len(products) = max_products_number
    /\ Len(source) > Len(products)
    /\ products_with_images_to_update = << >>
    /\ ~csv_uploaded

\* C10 as stated: the differ runs before the image matcher, and no product
\* whose key is in the previous snapshot is passed to image matching.
C10_DifferBeforeMatcher ==
    Ran("matcher") =>
        /\ Precedes("differ", "matcher")
        /\ \A i \in 1..Len(matcher_input) :
              matcher_input[i].external_id \notin snapshot_at_start

\* C10 as amended: the image matcher runs first, on the run's whole product
\* set; the differ runs after it and before the image upload (Dropbox), and the
\* upload gets exactly the needs-processing subset: no product whose key is in
\* the previous snapshot is passed to it.
C10_MatcherThenDifferThenUpload ==
    /\ Ran("matcher") => matcher_input = products
    /\ Ran("differ") => Precedes("matcher", "differ")
    /\ Ran("dropbox") =>
          /\ Precedes("differ", "dropbox")
          /\ \A i \in 1..Len(dropbox_input) :
                key_of(dropbox_input[i]) \notin snapshot_at_start
          /\ dropbox_input =
                SelectSeq(products_with_images,
                          LAMBDA pi : key_of(pi) \notin snapshot_at_start)

C10_Witness ==
    /\ Ran("dropbox")
    /\ dropbox_input # << >>
    /\ \E i \in 1..Len(matcher_input) :
          matcher_input[i].external_id \in snapshot_at_start
=============================================================================
